---- MODULE Spec2Model ----
(***************************************************************************)
(* redis_exporter, src/main.go: option resolution (getEnv, getEnvBool,     *)
(* getEnvInt64, flag.Parse), the startup sequence of main, the listener    *)
(* goroutine and the signal-driven graceful shutdown.                      *)
(*                                                                         *)
(* Strings are tuples of one-character strings, so that the parsers can    *)
(* look at their characters: "15s" is <<"1","5","s">>, "" is <<>>.         *)
(***************************************************************************)
EXTENDS Integers, Sequences, FiniteSets, TLC

\* ------------------------------------------------------------------ bounds
\* signals (SIGINT/SIGTERM) the environment delivers after signal.Notify
MaxSignals == 2
\* scrape requests in flight at the same time
MaxInflight == 2

\* ----------------------------------------------------------------- strings
Empty == <<>>

Digits == {"0", "1", "2", "3", "4", "5", "6", "7", "8", "9"}

\* the value of a digit or letter, as strconv's digit loop computes it
DigitVal(c) ==
  CASE c = "0" -> 0 [] c = "1" -> 1 [] c = "2" -> 2 [] c = "3" -> 3
    [] c = "4" -> 4 [] c = "5" -> 5 [] c = "6" -> 6 [] c = "7" -> 7
    [] c = "8" -> 8 [] c = "9" -> 9
    [] c = "a" -> 10 [] c = "b" -> 11 [] c = "c" -> 12 [] c = "d" -> 13
    [] c = "e" -> 14 [] c = "f" -> 15
    [] c = "x" -> 33 [] c = "y" -> 34
    [] OTHER -> 99

Tail2(s) == SubSeq(s, 3, Len(s))

\* strings.Split(s, ","): the pieces between the commas, empty pieces kept
RECURSIVE SplitFrom(_, _)
SplitFrom(s, cur) ==
  IF s = Empty THEN <<cur>>
  ELSE IF Head(s) = "," THEN <<cur>> \o SplitFrom(Tail(s), Empty)
  ELSE SplitFrom(Tail(s), Append(cur, Head(s)))

Split(s) == SplitFrom(s, Empty)

\* ---------------------------------------------------- time.ParseDuration
\* Milliseconds per unit; the model's inputs use h, m, s and ms only.
UnitMs(u) ==
  CASE u = <<"m", "s">> -> 1
    [] u = <<"s">> -> 1000
    [] u = <<"m">> -> 60000
    [] u = <<"h">> -> 3600000
    [] OTHER -> 0

RECURSIVE LeadingDigits(_)
LeadingDigits(s) ==
  IF s # Empty /\ Head(s) \in Digits THEN <<Head(s)>> \o LeadingDigits(Tail(s))
  ELSE Empty

RECURSIVE LeadingUnit(_)
LeadingUnit(s) ==
  IF s # Empty /\ Head(s) \notin Digits /\ Head(s) # "."
  THEN <<Head(s)>> \o LeadingUnit(Tail(s))
  ELSE Empty

RECURSIVE DecimalValue(_, _)
DecimalValue(ds, acc) ==
  IF ds = Empty THEN acc ELSE DecimalValue(Tail(ds), acc * 10 + DigitVal(Head(ds)))

\* the ([0-9]+[a-z]+)+ loop of time.ParseDuration, on integer amounts
RECURSIVE DurationTerms(_, _)
DurationTerms(s, acc) ==
  IF s = Empty THEN [ok |-> TRUE, ms |-> acc]
  ELSE LET ds == LeadingDigits(s)
           r1 == SubSeq(s, Len(ds) + 1, Len(s))
           u  == LeadingUnit(r1)
           r2 == SubSeq(r1, Len(u) + 1, Len(r1))
       IN  IF ds = Empty \/ u = Empty \/ UnitMs(u) = 0
           THEN [ok |-> FALSE, ms |-> 0]
           ELSE DurationTerms(r2, acc + DecimalValue(ds, 0) * UnitMs(u))

ParseDuration(s) ==
  LET neg  == s # Empty /\ Head(s) = "-"
      body == IF s # Empty /\ Head(s) \in {"-", "+"} THEN Tail(s) ELSE s
  IN  IF body = <<"0">> THEN [ok |-> TRUE, ms |-> 0]
      ELSE IF body = Empty THEN [ok |-> FALSE, ms |-> 0]
      ELSE LET r == DurationTerms(body, 0)
           IN  IF r.ok /\ neg THEN [ok |-> TRUE, ms |-> 0 - r.ms] ELSE r

\* ------------------------------------------------------ strconv.ParseBool
ParseBool(s) ==
  IF s \in {<<"1">>, <<"t">>, <<"T">>, <<"T", "R", "U", "E">>,
            <<"t", "r", "u", "e">>, <<"T", "r", "u", "e">>}
  THEN [ok |-> TRUE, val |-> TRUE]
  ELSE IF s \in {<<"0">>, <<"f">>, <<"F">>, <<"F", "A", "L", "S", "E">>,
                 <<"f", "a", "l", "s", "e">>, <<"F", "a", "l", "s", "e">>}
  THEN [ok |-> TRUE, val |-> FALSE]
  ELSE [ok |-> FALSE, val |-> FALSE]

\* ------------------------------------------------------- strconv.ParseInt
\* 2^63 in decimal digits: the first magnitude a positive int64 cannot hold
Int64Limit ==
  <<"9", "2", "2", "3", "3", "7", "2", "0", "3", "6",
    "8", "5", "4", "7", "7", "5", "8", "0", "8">>

RECURSIVE StripZeros(_)
StripZeros(ds) ==
  IF ds # Empty /\ Head(ds) = "0" THEN StripZeros(Tail(ds)) ELSE ds

\* a < b for decimal magnitudes without leading zeros
RECURSIVE DigitsLess(_, _)
DigitsLess(a, b) ==
  IF Len(a) # Len(b) THEN Len(a) < Len(b)
  ELSE IF a = Empty THEN FALSE
  ELSE IF Head(a) # Head(b) THEN DigitVal(Head(a)) < DigitVal(Head(b))
  ELSE DigitsLess(Tail(a), Tail(b))

RECURSIVE BaseValue(_, _, _)
BaseValue(ds, base, acc) ==
  IF ds = Empty THEN acc
  ELSE BaseValue(Tail(ds), base, acc * base + DigitVal(Head(ds)))

\* ParseInt(s, base, 64) for base 10 and base 0 (prefix decides the base).
\* The 64-bit range check compares decimal digits; the value is computed
\* only for a number that is in range.
ParseInt(s, base) ==
  LET neg  == s # Empty /\ Head(s) = "-"
      body == IF s # Empty /\ Head(s) \in {"-", "+"} THEN Tail(s) ELSE s
      pre  == IF base = 0 /\ body # Empty /\ Head(body) = "0"
              THEN IF Len(body) >= 3 /\ body[2] = "b" THEN [b |-> 2, ds |-> Tail2(body)]
                   ELSE IF Len(body) >= 3 /\ body[2] = "o" THEN [b |-> 8, ds |-> Tail2(body)]
                   ELSE IF Len(body) >= 3 /\ body[2] = "x" THEN [b |-> 16, ds |-> Tail2(body)]
                   ELSE [b |-> 8, ds |-> Tail(body)]
              ELSE [b |-> IF base = 0 THEN 10 ELSE base, ds |-> body]
      mag  == StripZeros(pre.ds)
      bad  == [ok |-> FALSE, val |-> 0]
  IN  IF body = Empty THEN bad
      ELSE IF \E i \in 1..Len(pre.ds) : DigitVal(pre.ds[i]) >= pre.b THEN bad
      ELSE IF pre.b = 10 /\ ~DigitsLess(mag, Int64Limit) /\ (~neg \/ mag # Int64Limit)
      THEN bad
      ELSE LET n == BaseValue(mag, pre.b, 0)
           IN  [ok |-> TRUE, val |-> IF neg THEN 0 - n ELSE n]

\* ----------------------------------------------------------------- inputs
PathInputs == {Empty, <<"p">>}

TimeoutInputs == {<<"1", "m", "5", "s">>, <<"a", "b", "c">>, <<"1", "5">>}

ScriptPathInputs == {Empty, <<"a", ",", "b">>, <<"a", ",">>}

\* the selectors CreateServerTLSConfig knows
TLSVersions ==
  {<<"T", "L", "S", "1", ".", "0">>, <<"T", "L", "S", "1", ".", "1">>,
   <<"T", "L", "S", "1", ".", "2">>, <<"T", "L", "S", "1", ".", "3">>}

MinVersionInputs ==
  {<<"T", "L", "S", "1", ".", "2">>, <<"T", "L", "S", "1", ".", "3">>,
   <<"S", "S", "L", "3">>}

StringInputs == {Empty, <<"a">>}

BoolInputs ==
  {<<"t", "r", "u", "e">>, <<"1">>, <<"0">>, <<"F">>, <<"y", "e", "s">>, Empty}

IntInputs ==
  {<<"4", "2">>, <<"-", "7">>, <<"0", "1", "0">>, <<"0", "x", "1", "0">>,
   <<"a", "b", "c">>, Empty, Int64Limit}

\* an environment variable (set or not) and a startup argument (given or not)
Maybe(S) == {[set |-> FALSE, val |-> Empty]} \cup [set : {TRUE}, val : S]

\* the option under resolution: its declared type, default, environment
\* variable and startup argument
Options ==
  [type : {"string"}, def : {Empty, <<"r">>}, env : Maybe(StringInputs),
   arg : Maybe(StringInputs)]
  \cup [type : {"bool"}, def : BOOLEAN, env : Maybe(BoolInputs),
        arg : Maybe(BoolInputs)]
  \cup [type : {"int64"}, def : {100, 1000}, env : Maybe(IntInputs),
        arg : Maybe(IntInputs)]
  \cup [type : {"duration"}, def : {<<"1", "5", "s">>}, env : Maybe(TimeoutInputs),
        arg : Maybe(TimeoutInputs)]

NoOption ==
  [type |-> "string", def |-> Empty, env |-> [set |-> FALSE, val |-> Empty],
   arg |-> [set |-> FALSE, val |-> Empty]]

VARIABLES
  opt,            \* the option being resolved (SpecResolve)
  flagValue,      \* the value its flag holds
  flags,          \* the resolved options main reads after flag.Parse
  mpc,            \* the controlling thread's position in main
  wpc,            \* the listener goroutine's position
  outcome,        \* "Running", or how the process ended
  to,             \* the parsed connection timeout (ms), -1 before it is parsed
  passwordMap,    \* "empty" or "loaded"
  scripts,        \* the script paths still to be read
  ls,             \* the script paths read so far
  exp,            \* the exporter: built, clientTLS (CreateClientTLSConfig done)
  server,         \* the http.Server
  wmode,          \* what the goroutine called: "none", "tls" (ListenAndServeTLS), "plain"
  tlsConfig,      \* the goroutine's local tlsConfig: "nil" or "built"
  werr,           \* what ListenAndServe[TLS] returned: "none", "closed", "other"
  registered,     \* signal.Notify has run
  quit,           \* the quit channel's buffer (capacity 1)
  sigCount,       \* signals delivered so far
  ctx,            \* the shutdown context: "none", "live", "expired"
  shutdownCalls,  \* calls of server.Shutdown
  shutdownErr,    \* what server.Shutdown returned: "none", "nil", "deadline"
  inflight,       \* scrape requests being served
  backendDialed,  \* a connection to the backend was attempted
  gracefulLogged  \* "Server shut down gracefully" was logged

vars == <<opt, flagValue, flags, mpc, wpc, outcome, to, passwordMap, scripts, ls, exp, server,
          wmode, tlsConfig, werr, registered, quit, sigCount, ctx, shutdownCalls,
          shutdownErr, inflight, backendDialed, gracefulLogged>>

cfgVars == <<opt, flagValue, flags>>
startupVars == <<to, passwordMap, scripts, ls, exp>>
workerVars == <<wpc, wmode, tlsConfig, werr>>
signalVars == <<registered, quit, sigCount>>
shutdownVars == <<ctx, shutdownCalls, shutdownErr, gracefulLogged>>
requestVars == <<inflight, backendDialed>>

Running == outcome = "Running"

FlagSets ==
  [showVersion : BOOLEAN,
   connectionTimeout : TimeoutInputs,
   redisPwd : PathInputs,
   redisPwdFile : PathInputs,
   scriptPath : ScriptPathInputs,
   tlsClientCertFile : PathInputs,
   tlsClientKeyFile : PathInputs,
   tlsServerCertFile : PathInputs,
   tlsServerKeyFile : PathInputs,
   tlsServerMinVersion : MinVersionInputs]

NoServer ==
  [constructed |-> FALSE, TLSConfig |-> "nil", inShutdown |-> FALSE,
   listener |-> "none", transport |-> "none"]

\* the state of main once the goroutine and the channel are not yet there
Unstarted ==
  /\ wpc = "idle"
  /\ outcome = "Running"
  /\ to = -1
  /\ passwordMap = "empty"
  /\ scripts = Empty
  /\ ls = {}
  /\ exp = [built |-> FALSE, clientTLS |-> FALSE]
  /\ server = NoServer
  /\ wmode = "none"
  /\ tlsConfig = "nil"
  /\ werr = "none"
  /\ registered = FALSE
  /\ quit = Empty
  /\ sigCount = 0
  /\ ctx = "none"
  /\ shutdownCalls = 0
  /\ shutdownErr = "none"
  /\ inflight = 0
  /\ backendDialed = FALSE
  /\ gracefulLogged = FALSE

\* the process after flag.Parse(), with whatever the options resolved to
Init ==
  /\ opt = NoOption
  /\ flagValue = Empty
  /\ flags \in FlagSets
  /\ mpc = "version"
  /\ Unstarted

\* log.Fatal / log.Fatalf: the process exits at once, whatever thread calls it
Fatal(kind) ==
  /\ outcome' = kind
  /\ UNCHANGED <<cfgVars, mpc, startupVars, server, workerVars, signalVars,
                 shutdownVars, requestVars>>

\* ------------------------------------------------ main: startup sequence
\* if *showVersion { return }
ShowVersion ==
  /\ Running /\ mpc = "version"
  /\ IF flags.showVersion
     THEN /\ outcome' = "VersionExit"
          /\ UNCHANGED mpc
     ELSE /\ mpc' = "timeout"
          /\ UNCHANGED outcome
  /\ UNCHANGED <<cfgVars, startupVars, server, workerVars, signalVars,
                 shutdownVars, requestVars>>

\* to, err := time.ParseDuration(*connectionTimeout)
ParseTimeout ==
  /\ Running /\ mpc = "timeout"
  /\ LET r == ParseDuration(flags.connectionTimeout)
     IN  IF r.ok
         THEN /\ to' = r.ms
              /\ mpc' = "pwdfile"
              /\ UNCHANGED <<cfgVars, outcome, passwordMap, scripts, ls, exp, server,
                             workerVars, signalVars, shutdownVars, requestVars>>
         ELSE Fatal("ConfigParseError")

\* exporter.LoadPwdFile, only when no inline password and a file path
LoadPasswords ==
  /\ Running /\ mpc = "pwdfile"
  /\ IF flags.redisPwd = Empty /\ flags.redisPwdFile # Empty
     THEN \E readable \in BOOLEAN :
            IF readable
            THEN /\ passwordMap' = "loaded"
                 /\ mpc' = "split"
                 /\ UNCHANGED <<cfgVars, outcome, to, scripts, ls, exp, server,
                                workerVars, signalVars, shutdownVars, requestVars>>
            ELSE Fatal("CredentialLoadError")
     ELSE /\ mpc' = "split"
          /\ UNCHANGED <<cfgVars, outcome, startupVars, server, workerVars,
                         signalVars, shutdownVars, requestVars>>

\* if *scriptPath != "" { scripts := strings.Split(*scriptPath, ",") ... }
SplitScripts ==
  /\ Running /\ mpc = "split"
  /\ scripts' = IF flags.scriptPath # Empty THEN Split(flags.scriptPath) ELSE Empty
  /\ mpc' = "read"
  /\ UNCHANGED <<cfgVars, outcome, to, passwordMap, ls, exp, server, workerVars,
                 signalVars, shutdownVars, requestVars>>

\* one iteration of: if ls[script], err = os.ReadFile(script); err != nil
ReadScript ==
  /\ Running /\ mpc = "read"
  /\ IF scripts = Empty
     THEN /\ mpc' = "newexporter"
          /\ UNCHANGED <<cfgVars, outcome, startupVars, server, workerVars,
                         signalVars, shutdownVars, requestVars>>
     ELSE \E readable \in BOOLEAN :
            IF readable /\ Head(scripts) # Empty
            THEN /\ ls' = ls \cup {Head(scripts)}
                 /\ scripts' = Tail(scripts)
                 /\ UNCHANGED <<cfgVars, mpc, outcome, to, passwordMap, exp, server,
                                workerVars, signalVars, shutdownVars, requestVars>>
            ELSE Fatal("CredentialLoadError")

\* exporter.NewRedisExporter: builds the engine, dials nothing
NewRedisExporter ==
  /\ Running /\ mpc = "newexporter"
  /\ \E ok \in BOOLEAN :
       IF ok
       THEN /\ exp' = [exp EXCEPT !.built = TRUE]
            /\ mpc' = "paircheck"
            /\ UNCHANGED <<cfgVars, outcome, to, passwordMap, scripts, ls, server,
                           workerVars, signalVars, shutdownVars, requestVars>>
       ELSE Fatal("ExporterError")

\* (*tlsClientCertFile != "") != (*tlsClientKeyFile != "")
PairMismatch(f) == (f.tlsClientCertFile # Empty) # (f.tlsClientKeyFile # Empty)

\* faulty variant: only a certificate without a key is rejected
PairCheck_OneWay ==
  /\ Running /\ mpc = "paircheck"
  /\ IF flags.tlsClientCertFile # Empty /\ flags.tlsClientKeyFile = Empty
     THEN Fatal("TLSConfigError")
     ELSE /\ mpc' = "clienttls"
          /\ UNCHANGED <<cfgVars, outcome, startupVars, server, workerVars,
                         signalVars, shutdownVars, requestVars>>

PairCheck ==
  /\ Running /\ mpc = "paircheck"
  /\ IF PairMismatch(flags)
     THEN Fatal("TLSConfigError")
     ELSE /\ mpc' = "clienttls"
          /\ UNCHANGED <<cfgVars, outcome, startupVars, server, workerVars,
                         signalVars, shutdownVars, requestVars>>

\* exp.CreateClientTLSConfig(): an error when the material cannot be loaded
CreateClientTLSConfig(materialOK) == IF materialOK THEN "ok" ELSE "err"

ClientTLS ==
  /\ Running /\ mpc = "clienttls"
  /\ \E materialOK \in BOOLEAN :
       IF CreateClientTLSConfig(materialOK) = "ok"
       THEN /\ exp' = [exp EXCEPT !.clientTLS = TRUE]
            /\ mpc' = "mkserver"
            /\ UNCHANGED <<cfgVars, outcome, to, passwordMap, scripts, ls, server,
                           workerVars, signalVars, shutdownVars, requestVars>>
       ELSE Fatal("TLSConfigError")

\* server := &http.Server{Addr: *listenAddress, Handler: exp}
ConstructServer ==
  /\ Running /\ mpc = "mkserver"
  /\ server' = [server EXCEPT !.constructed = TRUE]
  /\ mpc' = "spawn"
  /\ UNCHANGED <<cfgVars, outcome, startupVars, workerVars, signalVars,
                 shutdownVars, requestVars>>

\* go func() { ... }()
SpawnWorker ==
  /\ Running /\ mpc = "spawn"
  /\ wpc' = "start"
  /\ mpc' = "notify"
  /\ UNCHANGED <<cfgVars, outcome, startupVars, server, wmode, tlsConfig, werr,
                 signalVars, shutdownVars, requestVars>>

\* ------------------------------------------- the listener goroutine
\* if *tlsServerCertFile != "" && *tlsServerKeyFile != ""
WorkerBranch ==
  /\ Running /\ wpc = "start"
  /\ wpc' = IF flags.tlsServerCertFile # Empty /\ flags.tlsServerKeyFile # Empty
            THEN "tls_build" ELSE "call_plain"
  /\ UNCHANGED <<cfgVars, mpc, outcome, startupVars, server, wmode, tlsConfig, werr,
                 signalVars, shutdownVars, requestVars>>

\* exp.CreateServerTLSConfig(cert, key, caCert, minVersion): an error for a
\* selector outside TLS1.0..TLS1.3 and for material that cannot be loaded
CreateServerTLSConfig(minVersion, materialOK) ==
  IF minVersion \in TLSVersions /\ materialOK THEN "ok" ELSE "err"

\* faulty variant: the error of CreateServerTLSConfig is dropped
BuildServerTLS_ErrIgnored ==
  /\ Running /\ wpc = "tls_build"
  /\ tlsConfig' = "built"
  /\ wpc' = "tls_assign"
  /\ UNCHANGED <<cfgVars, mpc, outcome, startupVars, server, wmode, werr,
                 signalVars, shutdownVars, requestVars>>

\* tlsConfig, err := exp.CreateServerTLSConfig(...); if err != nil { log.Fatal(err) }
BuildServerTLS ==
  /\ Running /\ wpc = "tls_build"
  /\ \E materialOK \in BOOLEAN :
       IF CreateServerTLSConfig(flags.tlsServerMinVersion, materialOK) = "ok"
       THEN /\ tlsConfig' = "built"
            /\ wpc' = "tls_assign"
            /\ UNCHANGED <<cfgVars, mpc, outcome, startupVars, server, wmode, werr,
                           signalVars, shutdownVars, requestVars>>
       ELSE Fatal("TLSConfigError")

\* faulty variant: the built context is never assigned to the server
AssignServerTLS_Skipped ==
  /\ Running /\ wpc = "tls_assign"
  /\ wpc' = "call_tls"
  /\ UNCHANGED <<cfgVars, mpc, outcome, startupVars, server, wmode,
                 tlsConfig, werr, signalVars, shutdownVars, requestVars>>

\* server.TLSConfig = tlsConfig
AssignServerTLS ==
  /\ Running /\ wpc = "tls_assign"
  /\ server' = [server EXCEPT !.TLSConfig = tlsConfig]
  /\ wpc' = "call_tls"
  /\ UNCHANGED <<cfgVars, mpc, outcome, startupVars, wmode, tlsConfig, werr,
                 signalVars, shutdownVars, requestVars>>

\* server.ListenAndServeTLS("", "") / server.ListenAndServe() is entered:
\* a server already shutting down returns ErrServerClosed at once
ListenEnter ==
  /\ Running /\ wpc \in {"call_tls", "call_plain"}
  /\ wmode' = IF wpc = "call_tls" THEN "tls" ELSE "plain"
  /\ IF server.inShutdown
     THEN /\ werr' = "closed"
          /\ wpc' = "las_ret"
     ELSE /\ wpc' = "las_bind"
          /\ UNCHANGED werr
  /\ UNCHANGED <<cfgVars, mpc, outcome, startupVars, server, tlsConfig,
                 signalVars, shutdownVars, requestVars>>

\* net.Listen, and for TLS the certificates of server.TLSConfig: any failure
\* is returned as it is
ListenBind ==
  /\ Running /\ wpc = "las_bind"
  /\ \E bindOK \in BOOLEAN :
       IF bindOK /\ (wmode = "tls" => server.TLSConfig = "built")
       THEN /\ server' = [server EXCEPT !.listener = "bound"]
            /\ wpc' = "las_track"
            /\ UNCHANGED werr
       ELSE /\ werr' = "other"
            /\ wpc' = "las_ret"
            /\ UNCHANGED server
  /\ UNCHANGED <<cfgVars, mpc, outcome, startupVars, wmode, tlsConfig,
                 signalVars, shutdownVars, requestVars>>

\* Serve registers the listener, unless the server is shutting down
ListenTrack ==
  /\ Running /\ wpc = "las_track"
  /\ IF server.inShutdown
     THEN /\ server' = [server EXCEPT !.listener = "closed"]
          /\ werr' = "closed"
          /\ wpc' = "las_ret"
     ELSE /\ server' = [server EXCEPT !.listener = "serving", !.transport = wmode]
          /\ wpc' = "serving"
          /\ UNCHANGED werr
  /\ UNCHANGED <<cfgVars, mpc, outcome, startupVars, wmode, tlsConfig,
                 signalVars, shutdownVars, requestVars>>

\* the accept loop ends: ErrServerClosed once Shutdown closed the listener,
\* the accept error itself otherwise
ServeReturn ==
  /\ Running /\ wpc = "serving"
  /\ IF server.inShutdown
     THEN /\ werr' = "closed"
          /\ UNCHANGED server
     ELSE /\ werr' = "other"
          /\ server' = [server EXCEPT !.listener = "closed"]
  /\ wpc' = "las_ret"
  /\ UNCHANGED <<cfgVars, mpc, outcome, startupVars, wmode, tlsConfig,
                 signalVars, shutdownVars, requestVars>>

\* faulty variant: if err != nil { log.Fatalf(...) }
WorkerReturn_AnyErrFatal ==
  /\ Running /\ wpc = "las_ret"
  /\ Fatal("StartupError")

\* if err != nil && !errors.Is(err, http.ErrServerClosed) { log.Fatalf(...) }
WorkerReturn ==
  /\ Running /\ wpc = "las_ret"
  /\ IF werr # "closed"
     THEN Fatal("StartupError")
     ELSE /\ wpc' = "done"
          /\ UNCHANGED <<cfgVars, mpc, outcome, startupVars, server, wmode,
                         tlsConfig, werr, signalVars, shutdownVars, requestVars>>

\* ------------------------------------------------- main: graceful shutdown
\* quit := make(chan os.Signal, 1); signal.Notify(quit, SIGINT, SIGTERM)
NotifySignals ==
  /\ Running /\ mpc = "notify"
  /\ registered' = TRUE
  /\ mpc' = "wait"
  /\ UNCHANGED <<cfgVars, outcome, startupVars, server, workerVars, quit, sigCount,
                 shutdownVars, requestVars>>

\* the runtime hands a SIGINT or SIGTERM to the channel without blocking:
\* the signal is dropped when the one slot is taken. (A signal that arrives
\* before signal.Notify kills the process by the runtime's default and is
\* not part of this lifecycle.)
DeliverSignal ==
  /\ Running /\ registered /\ sigCount < MaxSignals
  /\ \E sig \in {"SIGINT", "SIGTERM"} :
       quit' = IF Len(quit) < 1 THEN Append(quit, sig) ELSE quit
  /\ sigCount' = sigCount + 1
  /\ UNCHANGED <<cfgVars, mpc, outcome, startupVars, server, workerVars, registered,
                 shutdownVars, requestVars>>

\* faulty variant: a receive that does not block on an empty channel
WaitSignal_NoBlock ==
  /\ Running /\ mpc = "wait"
  /\ quit' = IF quit = Empty THEN quit ELSE Tail(quit)
  /\ mpc' = "mkctx"
  /\ UNCHANGED <<cfgVars, outcome, startupVars, server, workerVars,
                 registered, sigCount, shutdownVars, requestVars>>

\* _quit := <-quit
WaitSignal ==
  /\ Running /\ mpc = "wait"
  /\ quit # Empty
  /\ quit' = Tail(quit)
  /\ mpc' = "mkctx"
  /\ UNCHANGED <<cfgVars, outcome, startupVars, server, workerVars, registered,
                 sigCount, shutdownVars, requestVars>>

\* ctx, cancel := context.WithTimeout(context.Background(), 10*time.Second)
CreateContext ==
  /\ Running /\ mpc = "mkctx"
  /\ ctx' = "live"
  /\ mpc' = "shutdown"
  /\ UNCHANGED <<cfgVars, outcome, startupVars, server, workerVars, signalVars,
                 shutdownCalls, shutdownErr, gracefulLogged, requestVars>>

\* the 10 seconds pass
ContextExpire ==
  /\ Running /\ ctx = "live"
  /\ ctx' = "expired"
  /\ UNCHANGED <<cfgVars, mpc, outcome, startupVars, server, workerVars, signalVars,
                 shutdownCalls, shutdownErr, gracefulLogged, requestVars>>

\* server.Shutdown(ctx) is entered: the server is marked as shutting down
\* and the registered listener is closed
ShutdownEnter ==
  /\ Running /\ mpc = "shutdown"
  /\ server' = [server EXCEPT !.inShutdown = TRUE,
                              !.listener = IF @ = "serving" THEN "closed" ELSE @]
  /\ shutdownCalls' = shutdownCalls + 1
  /\ mpc' = "sd_check"
  /\ UNCHANGED <<cfgVars, outcome, startupVars, workerVars, signalVars, ctx,
                 shutdownErr, gracefulLogged, requestVars>>

\* Shutdown's poll: nil once no connection is active
ShutdownPoll ==
  /\ Running /\ mpc = "sd_check"
  /\ IF inflight = 0
     THEN /\ shutdownErr' = "nil"
          /\ mpc' = "sd_ret"
     ELSE /\ mpc' = "sd_select"
          /\ UNCHANGED shutdownErr
  /\ UNCHANGED <<cfgVars, outcome, startupVars, server, workerVars, signalVars, ctx,
                 shutdownCalls, gracefulLogged, requestVars>>

\* Shutdown's select: the context's error once it is done, the next poll
\* when the poll timer fires first
ShutdownSelect ==
  /\ Running /\ mpc = "sd_select"
  /\ IF ctx = "expired"
     THEN /\ shutdownErr' = "deadline"
          /\ mpc' = "sd_ret"
     ELSE /\ mpc' = "sd_check"
          /\ UNCHANGED shutdownErr
  /\ UNCHANGED <<cfgVars, outcome, startupVars, server, workerVars, signalVars, ctx,
                 shutdownCalls, gracefulLogged, requestVars>>

\* faulty variant: the error of server.Shutdown is not looked at
ShutdownReturn_ErrIgnored ==
  /\ Running /\ mpc = "sd_ret"
  /\ gracefulLogged' = TRUE
  /\ outcome' = "Graceful"
  /\ UNCHANGED <<cfgVars, mpc, startupVars, server, workerVars, signalVars,
                 ctx, shutdownCalls, shutdownErr, requestVars>>

\* faulty variant: after a clean shutdown the thread waits for the next signal
ShutdownReturn_Loop ==
  /\ Running /\ mpc = "sd_ret"
  /\ IF shutdownErr # "nil"
     THEN Fatal("ShutdownTimeout")
     ELSE /\ gracefulLogged' = TRUE
          /\ mpc' = "wait"
          /\ UNCHANGED <<cfgVars, outcome, startupVars, server,
                         workerVars, signalVars, ctx, shutdownCalls, shutdownErr,
                         requestVars>>

\* if err := server.Shutdown(ctx); err != nil { log.Fatalf(...) }
\* log.Infof("Server shut down gracefully"); main returns
ShutdownReturn ==
  /\ Running /\ mpc = "sd_ret"
  /\ IF shutdownErr # "nil"
     THEN Fatal("ShutdownTimeout")
     ELSE /\ gracefulLogged' = TRUE
          /\ outcome' = "Graceful"
          /\ UNCHANGED <<cfgVars, mpc, startupVars, server, workerVars, signalVars,
                         ctx, shutdownCalls, shutdownErr, requestVars>>

\* ------------------------------------------------------------ scrape clients
\* a request is accepted by the serving listener; the handler dials the backend
RequestArrive ==
  /\ Running /\ server.listener = "serving" /\ inflight < MaxInflight
  /\ inflight' = inflight + 1
  /\ backendDialed' = TRUE
  /\ UNCHANGED <<cfgVars, mpc, outcome, startupVars, server, workerVars, signalVars,
                 shutdownVars>>

RequestFinish ==
  /\ Running /\ inflight > 0
  /\ inflight' = inflight - 1
  /\ UNCHANGED <<cfgVars, mpc, outcome, startupVars, server, workerVars, signalVars,
                 shutdownVars, backendDialed>>

\* --------------------------------------------------- option resolution
getEnv(env, defaultVal) == IF env.set THEN env.val ELSE defaultVal

getEnvBool(env, defaultVal) ==
  IF env.set /\ ParseBool(env.val).ok THEN ParseBool(env.val).val ELSE defaultVal

\* faulty variant: the error of ParseInt is dropped and its zero result returned
getEnvInt64_ErrIgnored(env, defaultVal) ==
  IF env.set THEN ParseInt(env.val, 10).val ELSE defaultVal

getEnvInt64(env, defaultVal) ==
  IF env.set /\ ParseInt(env.val, 10).ok THEN ParseInt(env.val, 10).val
  ELSE defaultVal

\* flag.String / flag.Bool / flag.Int64 with the getEnv* result as default
DeclareFlag ==
  /\ Running /\ mpc = "declare"
  /\ flagValue' = CASE opt.type = "bool" -> getEnvBool(opt.env, opt.def)
                    [] opt.type = "int64" -> getEnvInt64(opt.env, opt.def)
                    [] OTHER -> getEnv(opt.env, opt.def)
  /\ mpc' = "flagparse"
  /\ UNCHANGED <<opt, flags, wpc, outcome, startupVars, server, wmode, tlsConfig,
                 werr, signalVars, shutdownVars, requestVars>>

\* the flag's Set: string flags take the text, bool flags ParseBool,
\* int64 flags ParseInt(s, 0, 64)
FlagSet(type, raw) ==
  CASE type = "bool" -> ParseBool(raw)
    [] type = "int64" -> ParseInt(raw, 0)
    [] OTHER -> [ok |-> TRUE, val |-> raw]

\* faulty variant: an argument is applied only when the environment did not set the option
FlagParse_EnvWins ==
  /\ Running /\ mpc = "flagparse"
  /\ IF opt.arg.set /\ ~FlagSet(opt.type, opt.arg.val).ok
     THEN /\ outcome' = "UsageError"
          /\ UNCHANGED <<flagValue, flags, mpc>>
     ELSE /\ flagValue' = IF opt.arg.set /\ ~opt.env.set
                          THEN FlagSet(opt.type, opt.arg.val).val
                          ELSE flagValue
          /\ flags' = IF opt.type = "duration"
                      THEN [flags EXCEPT !.connectionTimeout = flagValue']
                      ELSE flags
          /\ mpc' = "version"
          /\ UNCHANGED outcome
  /\ UNCHANGED <<opt, wpc, startupVars, server, wmode, tlsConfig, werr,
                 signalVars, shutdownVars, requestVars>>

\* flag.Parse(): a given argument replaces the flag's value; one that does
\* not parse ends the process with the usage message
FlagParse ==
  /\ Running /\ mpc = "flagparse"
  /\ IF opt.arg.set /\ ~FlagSet(opt.type, opt.arg.val).ok
     THEN /\ outcome' = "UsageError"
          /\ UNCHANGED <<flagValue, flags, mpc>>
     ELSE /\ flagValue' = IF opt.arg.set THEN FlagSet(opt.type, opt.arg.val).val
                          ELSE flagValue
          /\ flags' = IF opt.type = "duration"
                      THEN [flags EXCEPT !.connectionTimeout = flagValue']
                      ELSE flags
          /\ mpc' = "version"
          /\ UNCHANGED outcome
  /\ UNCHANGED <<opt, wpc, startupVars, server, wmode, tlsConfig, werr,
                 signalVars, shutdownVars, requestVars>>

\* the flags that are not under resolution hold their defaults
DefaultFlags ==
  [showVersion : BOOLEAN,
   connectionTimeout : {<<"1", "5", "s">>},
   redisPwd : {Empty}, redisPwdFile : {Empty}, scriptPath : {Empty},
   tlsClientCertFile : {Empty}, tlsClientKeyFile : {Empty},
   tlsServerCertFile : {Empty}, tlsServerKeyFile : {Empty},
   tlsServerMinVersion : {<<"T", "L", "S", "1", ".", "2">>}]

\* one option, from its declaration to the parse of the connection timeout
InitResolve ==
  /\ opt \in Options
  /\ flagValue = opt.def
  /\ flags \in DefaultFlags
  /\ mpc = "declare"
  /\ Unstarted

NextResolve == DeclareFlag \/ FlagParse \/ ShowVersion \/ ParseTimeout

SpecResolve == InitResolve /\ [][NextResolve]_vars

MainStep ==
  \/ ShowVersion \/ ParseTimeout \/ LoadPasswords \/ SplitScripts \/ ReadScript
  \/ NewRedisExporter \/ PairCheck \/ ClientTLS \/ ConstructServer \/ SpawnWorker
  \/ NotifySignals \/ WaitSignal \/ CreateContext \/ ShutdownEnter \/ ShutdownPoll
  \/ ShutdownSelect \/ ShutdownReturn

WorkerStep ==
  \/ WorkerBranch \/ BuildServerTLS \/ AssignServerTLS \/ ListenEnter \/ ListenBind
  \/ ListenTrack \/ ServeReturn \/ WorkerReturn

EnvStep == DeliverSignal \/ ContextExpire \/ RequestArrive \/ RequestFinish

Next == MainStep \/ WorkerStep \/ EnvStep

Spec == Init /\ [][Next]_vars

\* the scheduler runs both threads and the shutdown timer fires
FairSpec ==
  Spec /\ WF_vars(MainStep) /\ WF_vars(WorkerStep) /\ WF_vars(ContextExpire)

\* ----------------------------------------------------------- vocabulary
Terminated == outcome # "Running"

\* the controlling thread has taken a signal from quit
SignalConsumed == mpc \in {"mkctx", "shutdown", "sd_check", "sd_select", "sd_ret"}

\* the step that enters server.Shutdown
ShutdownInitiated == mpc = "shutdown" /\ mpc' = "sd_check"

InboundBoth == flags.tlsServerCertFile # Empty /\ flags.tlsServerKeyFile # Empty
InboundAny == flags.tlsServerCertFile # Empty \/ flags.tlsServerKeyFile # Empty
BadSelector == flags.tlsServerMinVersion \notin TLSVersions

\* ------------------------------------------------------------------- C1
\* C1 as claimed: server.Shutdown is entered only from Serving.
C1_ShutdownOnlyFromServing ==
  [][ShutdownInitiated => server.listener = "serving"]_vars

\* C1 as amended: server.Shutdown is entered only after signal registration,
\* after a delivered signal was consumed and after the worker was started,
\* whatever state the listener is in; a listener that was not serving when
\* the shutdown was entered never serves afterwards.
C1_ShutdownAfterSignalAndSpawn ==
  /\ [][ShutdownInitiated =>
          registered /\ sigCount >= 1 /\ server.constructed /\ wpc # "idle"]_vars
  /\ [][server.inShutdown => server'.listener # "serving"]_vars

\* a shutdown entered while the worker has not bound the listener
C1_Witness ==
  /\ mpc = "sd_check" /\ server.inShutdown
  /\ server.listener = "none" /\ wpc \in {"start", "tls_build", "call_plain", "las_bind"}

\* ------------------------------------------------------------------- C2
\* C2 as claimed: once the worker has started, the inbound TLS context is
\* built and assigned to the server.
C2_TLSBuiltBeforeWorker ==
  (wpc # "idle" /\ InboundBoth) => server.TLSConfig = "built"

\* C2 as amended: the inbound TLS context is built and assigned inside the
\* worker, after it started and before it calls ListenAndServeTLS; no
\* listener is bound or serves TLS without it.
C2_TLSBuiltBeforeListen ==
  /\ wpc \in {"idle", "start", "tls_build", "tls_assign"} => server.TLSConfig = "nil"
  /\ (wpc = "call_tls" \/ wmode = "tls") => server.TLSConfig = "built"
  /\ (server.listener # "none" /\ wmode = "tls") => server.TLSConfig = "built"

C2_Witness ==
  server.listener = "serving" /\ server.transport = "tls" /\ server.TLSConfig = "built"

\* ------------------------------------------------------------------- C3
\* C3: server.Shutdown is called at most once; once a signal was consumed the
\* controlling thread never reads quit again, and a later signal changes
\* nothing but the channel's buffer and the delivery count.
C3_SingleShutdown ==
  /\ [](shutdownCalls <= 1)
  /\ [][SignalConsumed => mpc' # "wait" /\ (quit' = quit \/ quit = Empty)]_vars
  /\ [][(SignalConsumed /\ sigCount' # sigCount) =>
          UNCHANGED <<flags, mpc, outcome, startupVars, server, workerVars,
                      registered, shutdownVars, requestVars>>]_vars

\* a second signal sits in the buffer of a process that shut down gracefully
C3_Witness ==
  sigCount = 2 /\ quit # Empty /\ shutdownCalls = 1 /\ outcome = "Graceful"

\* ------------------------------------------------------------------- C4
BeforePairCheckPassed ==
  mpc \in {"version", "timeout", "pwdfile", "split", "read", "newexporter", "paircheck"}

StartupFatal ==
  outcome \in {"ConfigParseError", "CredentialLoadError", "ExporterError",
               "TLSConfigError"}

\* C4 as claimed: with exactly one of the outbound certificate and key paths,
\* the process ends in a fatal startup error, with no backend dialed, no
\* outbound TLS context built and no worker started; a consistent pair is
\* never rejected by the pairing check.
C4_MismatchAlwaysFatal ==
  /\ (PairMismatch(flags) /\ Terminated) =>
       StartupFatal /\ ~backendDialed /\ ~exp.clientTLS /\ wpc = "idle"
  /\ (~PairMismatch(flags) /\ Terminated) => mpc # "paircheck"

\* C4 as amended: with exactly one of the two paths the process never gets
\* past the pairing check: it dials no backend, builds no outbound TLS
\* context and starts no worker, and it ends either in a fatal startup error
\* (the pairing error, unless an earlier fatal error came first) or, when the
\* version flag is given, in the version exit that precedes every check; a
\* consistent pair is never rejected by the pairing check.
C4_MismatchNeverPasses ==
  /\ PairMismatch(flags) =>
       /\ BeforePairCheckPassed
       /\ ~backendDialed /\ ~exp.clientTLS /\ wpc = "idle" /\ ~server.constructed
       /\ Terminated => (StartupFatal \/ (outcome = "VersionExit" /\ flags.showVersion))
       /\ (Terminated /\ mpc = "paircheck") => outcome = "TLSConfigError"
       /\ (Terminated /\ ~flags.showVersion) => StartupFatal
  /\ (~PairMismatch(flags) /\ Terminated) => mpc # "paircheck"

\* the pairing check rejects a key without a certificate
C4_Witness ==
  /\ flags.tlsClientCertFile = Empty /\ flags.tlsClientKeyFile # Empty
  /\ mpc = "paircheck" /\ outcome = "TLSConfigError" /\ exp.built

\* ------------------------------------------------------------------- C5
\* C5 as claimed: with an unrecognized minimum-version selector the listener
\* never serves, whatever the other options are.
C5_BadSelectorNeverServes ==
  BadSelector => server.listener # "serving"

\* C5 as amended: when both the inbound certificate and key paths are given,
\* an unrecognized selector stops the worker at CreateServerTLSConfig, whose
\* only outcome is the fatal configuration error: no TLS context is built and
\* no listener is bound or serves. (Without both paths the selector is never
\* looked at.)
C5_BadSelectorRejectedWithTLS ==
  (BadSelector /\ InboundBoth) =>
    /\ wpc \in {"idle", "start", "tls_build"}
    /\ tlsConfig = "nil" /\ server.TLSConfig = "nil"
    /\ server.listener = "none" /\ server.transport = "none"
    /\ outcome # "StartupError"

\* the worker rejected the selector while the controlling thread waits
C5_Witness ==
  /\ BadSelector /\ InboundBoth
  /\ wpc = "tls_build" /\ mpc = "wait" /\ outcome = "TLSConfigError"

\* ------------------------------------------------------------------- C6
AllScriptsLoaded ==
  /\ scripts = Empty
  /\ flags.scriptPath # Empty =>
       ls = {Split(flags.scriptPath)[i] : i \in 1..Len(Split(flags.scriptPath))}

\* C6: a serving listener implies a parsed timeout, loaded credentials and
\* scripts, a consistent outbound pair with its TLS context built, and TLS
\* transport exactly when an inbound certificate or key path was given; a
\* fatal startup error leaves no listener behind.
C6_NoDegradedMode ==
  /\ server.listener = "serving" =>
       /\ ParseDuration(flags.connectionTimeout).ok
       /\ to = ParseDuration(flags.connectionTimeout).ms
       /\ (flags.redisPwd = Empty /\ flags.redisPwdFile # Empty) => passwordMap = "loaded"
       /\ AllScriptsLoaded
       /\ ~PairMismatch(flags) /\ exp.built /\ exp.clientTLS
       /\ (server.transport = "tls") <=> InboundAny
       /\ (server.transport = "plain") <=> ~InboundAny
  /\ StartupFatal => server.listener = "none"

\* C6 without the transport rule (what the code does keep)
C6_ServingImpliesStartupDone ==
  /\ server.listener = "serving" =>
       /\ ParseDuration(flags.connectionTimeout).ok
       /\ to = ParseDuration(flags.connectionTimeout).ms
       /\ (flags.redisPwd = Empty /\ flags.redisPwdFile # Empty) => passwordMap = "loaded"
       /\ AllScriptsLoaded
       /\ ~PairMismatch(flags) /\ exp.built /\ exp.clientTLS
       /\ (server.transport = "tls") <=> InboundBoth
  /\ StartupFatal => server.listener = "none"

\* ------------------------------------------------------------------- C7
\* flag.Parse() is over and the option has its final value
Resolved == mpc \notin {"declare", "flagparse"}

\* does the text parse for the option's type, as declared in main: the
\* connection timeout is declared with flag.String
ParsesAs(type, raw) ==
  CASE type = "bool" -> ParseBool(raw).ok
    [] type = "int64" -> ParseInt(raw, 10).ok
    [] OTHER -> TRUE

TypedEnv(type, raw) ==
  CASE type = "bool" -> ParseBool(raw).val
    [] type = "int64" -> ParseInt(raw, 10).val
    [] OTHER -> raw

\* argument first, then a set (and parsing) environment value, then the default
Precedence(o) ==
  IF o.arg.set THEN FlagSet(o.type, o.arg.val).val
  ELSE IF o.env.set /\ ParsesAs(o.type, o.env.val) THEN TypedEnv(o.type, o.env.val)
  ELSE o.def

EnvUnparseable(o) ==
  /\ o.env.set
  /\ CASE o.type = "bool" -> ~ParseBool(o.env.val).ok
       [] o.type = "int64" -> ~ParseInt(o.env.val, 10).ok
       [] o.type = "duration" -> ~ParseDuration(o.env.val).ok
       [] OTHER -> FALSE

Unset(o) == [o EXCEPT !.env = [set |-> FALSE, val |-> Empty]]

\* C8 as claimed: for every option, an unparseable environment value resolves
\* as if the variable were unset and never makes startup fatal.
C8_UnparseableEnvIsUnset ==
  (EnvUnparseable(opt) /\ ~opt.arg.set /\ Resolved) =>
    /\ flagValue = opt.def
    /\ outcome \in {"Running", "VersionExit"}

\* C8 as amended: for boolean and integer options an unparseable environment
\* value resolves as if the variable were unset (the default, or the
\* argument when one is given) and startup goes on; the connection timeout
\* is the exception: its environment text is taken as it is, and without an
\* overriding argument the parse of the timeout ends the process with
\* the fatal parse error (unless the version flag ended it before).
C8_UnparseableEnvIsUnsetButTimeout ==
  (EnvUnparseable(opt) /\ Resolved) =>
    /\ opt.type \in {"bool", "int64"} =>
         /\ flagValue = Precedence(Unset(opt))
         /\ ~opt.arg.set => flagValue = opt.def
         /\ outcome \in {"Running", "VersionExit"}
    /\ (opt.type = "duration" /\ ~opt.arg.set) =>
         /\ flagValue = opt.env.val /\ flags.connectionTimeout = opt.env.val
         /\ mpc \in {"version", "timeout"}
         /\ outcome \in {"Running", "VersionExit", "ConfigParseError"}
         /\ (Terminated /\ ~flags.showVersion) => outcome = "ConfigParseError"

\* an integer out of the 64-bit range fell back to the default and the
\* startup went past the parse of the timeout
C8_Witness ==
  /\ opt.type = "int64" /\ opt.env.set /\ opt.env.val = Int64Limit /\ ~opt.arg.set
  /\ flagValue = opt.def /\ mpc = "pwdfile" /\ outcome = "Running"

\* ------------------------------------------------------------------- C9
\* what the shutdown itself decides, in any state
ShutdownVerdict ==
  /\ outcome = "Graceful" => shutdownErr = "nil" /\ gracefulLogged /\ mpc = "sd_ret"
  /\ outcome = "ShutdownTimeout" =>
       shutdownErr = "deadline" /\ ctx = "expired" /\ mpc = "sd_ret"
  /\ gracefulLogged => outcome = "Graceful" /\ shutdownErr = "nil"
  /\ (server.constructed /\ Terminated /\ outcome # "Graceful") =>
       outcome \in {"ShutdownTimeout", "StartupError", "TLSConfigError"}

C10_OtherErrorAlwaysFatal ==
  /\ outcome = "StartupError" => werr = "other"
  /\ werr = "closed" => outcome # "StartupError"
  /\ (werr = "other" /\ Terminated) => outcome = "StartupError"

\* C10 as amended: ErrServerClosed never ends in the fatal path, in both
\* modes; with any other listener error the worker can only go on to the
\* fatal exit Failed(StartupError), and does so while the controlling thread
\* is blocked on the signal queue; only a controlling thread that already
\* consumed a signal can end the process first (graceful or timed out).
C10_OtherErrorFatalUnlessMainEnds ==
  /\ outcome = "StartupError" => werr = "other" /\ wpc = "las_ret"
  /\ werr = "closed" => outcome # "StartupError" /\ wpc \in {"las_ret", "done"}
  /\ werr = "other" => wpc = "las_ret"
  /\ wpc = "done" => werr = "closed"
  /\ (werr = "other" /\ Terminated) =>
       \/ outcome = "StartupError"
       \/ outcome \in {"Graceful", "ShutdownTimeout"} /\ mpc = "sd_ret"
  /\ (werr = "other" /\ Terminated /\ mpc \in {"notify", "wait"}) =>
       outcome = "StartupError"

\* a TLS listener error ended the process while main waited for a signal
C10_Witness ==
  /\ outcome = "StartupError" /\ werr = "other" /\ wmode = "tls"
  /\ mpc = "wait" /\ quit = Empty

====
